---- MODULE Spec2Model ----
(***************************************************************************)
(* Model of futures-util's Forward future (stream/forward.rs): a stream of *)
(* Result items is forwarded into a sink, one item at a time, with one     *)
(* buffered item, a flush while the stream is pending and a close when it  *)
(* is exhausted.  One invocation of Forward::poll runs from PollBegin to   *)
(* the action that returns; pc is the position inside poll.                *)
(***************************************************************************)
EXTENDS Integers, Sequences, FiniteSets, TLC

\* Longest source script (items and item-level errors before exhaustion).
MaxLen == 3
\* Not-ready answers the collaborators may give in one execution.
MaxPending == 3
\* Item values the source may yield.
MaxItem == 2
\* Calls made on TokioDefaultSpawn in one execution.
MaxCalls == 3
\* Distinct tasks handed to spawn_obj.
MaxTask == 2

\* Option::None of buffered_item / the moved-out local `item`.
None == 0
\* A stream entry Some(Err(e)).
StreamErr == -1

Items == 1..MaxItem

VARIABLES
  sink,           \* Forward.sink: "Some" or "None"
  buffered_item,  \* Forward.buffered_item: None or an item
  done,           \* Fuse.done of Forward.stream
  script,         \* what the underlying stream yields, in order, then exhaustion
  pos,            \* entries of script already yielded
  pc,             \* position inside Forward::poll ("idle" between invocations)
  item,           \* the local `item` handed to try_start_send
  ops,            \* collaborator calls of the current (or last) invocation
  result,         \* what the last invocation returned
  sent,           \* items handed to the sink's start_send, in order
  closes,         \* poll_close calls that reported Ready(Ok) (saturates at 2)
  dones,          \* invocations that returned Ready(Ok(sink)) (saturates at 2)
  failed,         \* an invocation has returned Ready(Err)
  repolled,       \* poll was invoked again after Ready(..) or a panic
  readySeen,      \* the sink's poll_ready has reported Ready
  readyErr,       \* the sink's poll_ready has reported an error
  closeCalled,    \* the sink's poll_close has been called
  assertFailed,   \* the debug_assert! of try_start_send has failed
  pendings,       \* not-ready answers given so far
  entryBuffer,    \* buffered_item as the current (or last) invocation found it
  calls,          \* TokioDefaultSpawn: calls made, with the executor's answer
  spawned         \* tasks the executor has accepted from spawn_obj, in order

vars == <<sink, buffered_item, done, script, pos, pc, item, ops, result, sent,
          closes, dones, failed, repolled, readySeen, readyErr, closeCalled,
          assertFailed, pendings, entryBuffer, calls, spawned>>

\* The Forward future and its history, which TokioDefaultSpawn never touches.
forward == <<sink, buffered_item, done, script, pos, pc, item, ops, result, sent,
             closes, dones, failed, repolled, readySeen, readyErr, closeCalled,
             assertFailed, pendings, entryBuffer>>

\* The record of TokioDefaultSpawn's calls, which Forward never touches.
facade == <<calls, spawned>>

\* What the steps inside Forward::poll leave alone.
outside == <<entryBuffer, calls, spawned>>

\* History variables that only the sink's calls change.
ghosts == <<closes, readySeen, readyErr, closeCalled, assertFailed>>

----
\* Helpers

\* Counting up to "more than once".
Sat(n) == IF n < 2 THEN n + 1 ELSE n

Op(name, answer) == <<name, answer>>

Scripts(S) == UNION {[1..n -> S] : n \in 0..MaxLen}

\* Items the source has handed out so far (the Ok entries among the first pos).
RECURSIVE OkItems(_)
OkItems(s) ==
  IF s = <<>> THEN <<>>
  ELSE IF Head(s) = StreamErr THEN OkItems(Tail(s))
       ELSE <<Head(s)>> \o OkItems(Tail(s))

Pulled == OkItems(SubSeq(script, 1, pos))

----
\* Forward::new

InitWith(S) ==
  /\ sink = "Some"
  /\ buffered_item = None
  /\ done = FALSE
  /\ script \in Scripts(S)
  /\ pos = 0
  /\ pc = "idle"
  /\ item = None
  /\ ops = <<>>
  /\ result = "NotPolled"
  /\ sent = <<>>
  /\ closes = 0
  /\ dones = 0
  /\ failed = FALSE
  /\ repolled = FALSE
  /\ readySeen = FALSE
  /\ readyErr = FALSE
  /\ closeCalled = FALSE
  /\ assertFailed = FALSE
  /\ pendings = 0
  /\ entryBuffer = None
  /\ calls = <<>>
  /\ spawned = <<>>

Init == InitWith(Items \cup {StreamErr})

----
\* Results after which poll must not be invoked again: Ready(Ok), Ready(Err)
\* and the two panics (expect(INVALID_POLL), Option::unwrap).
Terminal == {"Done", "Err", "InvalidPoll", "UnwrapNone"}

\* Leaving Forward::poll with result r (a return, or an unwinding panic).
Return(r) ==
  /\ pc' = "idle"
  /\ result' = r
  /\ dones' = IF r = "Done" THEN Sat(dones) ELSE dones
  /\ failed' = (failed \/ r = "Err")

\* Variant of PollBegin that goes to the stream without draining the buffer.
PollBeginSkipsDrain ==
  /\ pc = "idle"
  /\ entryBuffer' = buffered_item
  /\ UNCHANGED facade
  /\ ops' = <<>>
  /\ result' = "Running"
  /\ repolled' = (repolled \/ result \in Terminal)
  /\ pc' = "poll_next"
  /\ UNCHANGED <<item, buffered_item>>
  /\ UNCHANGED <<sink, done, script, pos, sent, dones, failed, pendings>>
  /\ UNCHANGED ghosts

\* Forward::poll, entry: take the buffered item, if any.
PollBegin ==
  /\ pc = "idle"
  /\ entryBuffer' = buffered_item
  /\ UNCHANGED facade
  /\ ops' = <<>>
  /\ result' = "Running"
  /\ repolled' = (repolled \/ result \in Terminal)
  /\ IF buffered_item # None
       THEN /\ item' = buffered_item
            /\ buffered_item' = None
            /\ pc' = "try_start_send"
       ELSE /\ pc' = "poll_next"
            /\ UNCHANGED <<item, buffered_item>>
  /\ UNCHANGED <<sink, done, script, pos, sent, dones, failed, pendings>>
  /\ UNCHANGED ghosts


----
\* Forward::try_start_send(item): rdy is the sink's poll_ready answer, snd
\* its start_send answer (asked only when rdy is Ready).

\* Variant of BufferedWhenNotReady that forgets the item.
BufferedDropped(it) == None

\* What line 59 stores in buffered_item when the sink is not ready.
BufferedWhenNotReady(it) == it

\* Variant of IsReady without the is_ready() test: only an error stops the send.
IsReadyUnlessErr(rdy) == rdy # "Err"

\* try_poll!(poll_ready(cx)).is_ready() at line 55.
IsReady(rdy) == rdy = "Ready"

TryStartSend(rdy, snd) ==
  /\ pc = "try_start_send"
  /\ UNCHANGED outside
  /\ assertFailed' = (assertFailed \/ buffered_item # None)
  /\ UNCHANGED <<sink, done, script, pos, repolled, closes, closeCalled>>
  /\ IF sink = "None"
       THEN \* Option::unwrap on a taken sink
            /\ Return("UnwrapNone")
            /\ item' = None
            /\ UNCHANGED <<buffered_item, ops, sent, readySeen, readyErr, pendings>>
       ELSE CASE IsReady(rdy) ->
                   /\ ops' = ops \o <<Op("poll_ready", rdy), Op("start_send", snd)>>
                   /\ sent' = Append(sent, item)
                   /\ item' = None
                   /\ readySeen' = (readySeen \/ rdy = "Ready")
                   /\ UNCHANGED <<buffered_item, readyErr, pendings>>
                   /\ IF snd = "Ok"
                        THEN /\ pc' = "poll_next"
                             /\ UNCHANGED <<result, dones, failed>>
                        ELSE Return("Err")
              [] rdy = "Pending" ->
                   /\ pendings < MaxPending
                   /\ pendings' = pendings + 1
                   /\ ops' = Append(ops, Op("poll_ready", "Pending"))
                   /\ buffered_item' = BufferedWhenNotReady(item)
                   /\ item' = None
                   /\ Return("Pending")
                   /\ UNCHANGED <<sent, readySeen, readyErr>>
              [] OTHER ->
                   /\ ops' = Append(ops, Op("poll_ready", "Err"))
                   /\ item' = None
                   /\ readyErr' = TRUE
                   /\ Return("Err")
                   /\ UNCHANGED <<buffered_item, sent, readySeen, pendings>>

----
\* Fuse<St>::poll_next as seen by Forward::poll's match (lines 82-96).  Fuse
\* answers Ready(None) without asking the stream once done is set, and sets
\* done when the stream reports exhaustion.

StreamHasEntry == ~done /\ pos < Len(script)

\* Poll::Ready(Some(Ok(item))) => try_start_send(item)
PollNextItem ==
  /\ pc = "poll_next"
  /\ UNCHANGED outside
  /\ StreamHasEntry
  /\ script[pos + 1] # StreamErr
  /\ pos' = pos + 1
  /\ item' = script[pos + 1]
  /\ ops' = Append(ops, Op("poll_next", "Item"))
  /\ pc' = "try_start_send"
  /\ UNCHANGED <<sink, buffered_item, done, script, result, sent, dones, failed,
                 repolled, pendings>>
  /\ UNCHANGED ghosts

\* Variant of PollNextErr that closes the sink before reporting the error.
PollNextErrThenClose ==
  /\ pc = "poll_next"
  /\ UNCHANGED outside
  /\ StreamHasEntry
  /\ script[pos + 1] = StreamErr
  /\ pos' = pos + 1
  /\ ops' = Append(ops, Op("poll_next", "Err"))
  /\ pc' = "poll_close"
  /\ UNCHANGED <<sink, buffered_item, done, script, item, sent, repolled, pendings,
                 result, dones, failed>>
  /\ UNCHANGED ghosts

\* Poll::Ready(Some(Err(e))) => return Poll::Ready(Err(e))
PollNextErr ==
  /\ pc = "poll_next"
  /\ UNCHANGED outside
  /\ StreamHasEntry
  /\ script[pos + 1] = StreamErr
  /\ pos' = pos + 1
  /\ ops' = Append(ops, Op("poll_next", "Err"))
  /\ Return("Err")
  /\ UNCHANGED <<sink, buffered_item, done, script, item, sent, repolled, pendings>>
  /\ UNCHANGED ghosts

\* Variant of PollNextNone that flushes instead of closing.
PollNextNoneThenFlush ==
  /\ pc = "poll_next"
  /\ UNCHANGED outside
  /\ done \/ pos = Len(script)
  /\ done' = TRUE
  /\ ops' = Append(ops, Op("poll_next", "None"))
  /\ pc' = "poll_flush"
  /\ UNCHANGED <<sink, buffered_item, script, pos, item, result, sent, dones,
                 failed, repolled, pendings>>
  /\ UNCHANGED ghosts

\* Poll::Ready(None) => go on to poll_close
PollNextNone ==
  /\ pc = "poll_next"
  /\ UNCHANGED outside
  /\ done \/ pos = Len(script)
  /\ done' = TRUE
  /\ ops' = Append(ops, Op("poll_next", "None"))
  /\ pc' = "poll_close"
  /\ UNCHANGED <<sink, buffered_item, script, pos, item, result, sent, dones,
                 failed, repolled, pendings>>
  /\ UNCHANGED ghosts

\* Variant of PollNextPending that reports Pending without flushing.
PollNextPendingNoFlush ==
  /\ pc = "poll_next"
  /\ UNCHANGED outside
  /\ ~done
  /\ pendings < MaxPending
  /\ pendings' = pendings + 1
  /\ ops' = Append(ops, Op("poll_next", "Pending"))
  /\ Return("Pending")
  /\ UNCHANGED <<sink, buffered_item, done, script, pos, item, sent, repolled>>
  /\ UNCHANGED ghosts

\* Poll::Pending => go on to poll_flush
PollNextPending ==
  /\ pc = "poll_next"
  /\ UNCHANGED outside
  /\ ~done
  /\ pendings < MaxPending
  /\ pendings' = pendings + 1
  /\ ops' = Append(ops, Op("poll_next", "Pending"))
  /\ pc' = "poll_flush"
  /\ UNCHANGED <<sink, buffered_item, done, script, pos, item, result, sent,
                 dones, failed, repolled>>
  /\ UNCHANGED ghosts

----
\* Lines 87-89: poll_close, then take the sink.

\* Variant of SinkAfterClose that takes the sink before looking at the answer.
SinkTakenBeforeCheck(ans) == IF ans = "Pending" THEN "Some" ELSE "None"

\* Variant of SinkAfterClose that leaves the sink in place.
SinkNeverTaken(ans) == "Some"

\* self.sink().take() runs only once try_ready! has let Ready(Ok) through:
\* what the sink field holds after poll_close answered ans.
SinkAfterClose(ans) == IF ans = "Ready" THEN "None" ELSE "Some"

\* Variant of CloseResult without the try_ready! on Pending.
CloseResultIgnoresPending(ans) == IF ans = "Err" THEN "Err" ELSE "Done"

\* Variant of CloseResult that reports Pending after a completed close.
CloseResultStaysPending(ans) == IF ans = "Err" THEN "Err" ELSE "Pending"

\* try_ready!(poll_close) followed by return Poll::Ready(Ok(..)).
CloseResult(ans) ==
  CASE ans = "Ready" -> "Done"
    [] ans = "Pending" -> "Pending"
    [] OTHER -> "Err"

PollClose(ans) ==
  /\ pc = "poll_close"
  /\ UNCHANGED outside
  /\ UNCHANGED <<buffered_item, done, script, pos, item, sent, repolled,
                 readySeen, readyErr, assertFailed>>
  /\ IF sink = "None"
       THEN \* expect(INVALID_POLL)
            /\ Return("InvalidPoll")
            /\ UNCHANGED <<sink, ops, closes, closeCalled, pendings>>
       ELSE /\ ans = "Pending" => pendings < MaxPending
            /\ pendings' = IF ans = "Pending" THEN pendings + 1 ELSE pendings
            /\ ops' = Append(ops, Op("poll_close", ans))
            /\ closeCalled' = TRUE
            /\ closes' = IF ans = "Ready" THEN Sat(closes) ELSE closes
            /\ sink' = SinkAfterClose(ans)
            /\ Return(CloseResult(ans))

----
\* Lines 92-94: poll_flush, then report Pending.

\* Variant of FlushResult that swallows a flush error.
FlushResultIgnoresErr(ans) == "Pending"

\* try_ready!(poll_flush) followed by return Poll::Pending.
FlushResult(ans) == IF ans = "Err" THEN "Err" ELSE "Pending"

PollFlush(ans) ==
  /\ pc = "poll_flush"
  /\ UNCHANGED outside
  /\ UNCHANGED <<sink, buffered_item, done, script, pos, item, sent, repolled>>
  /\ UNCHANGED ghosts
  /\ IF sink = "None"
       THEN \* expect(INVALID_POLL)
            /\ Return("InvalidPoll")
            /\ UNCHANGED <<ops, pendings>>
       ELSE /\ ans = "Pending" => pendings < MaxPending
            /\ pendings' = IF ans = "Pending" THEN pendings + 1 ELSE pendings
            /\ ops' = Append(ops, Op("poll_flush", ans))
            /\ Return(FlushResult(ans))

----
Answers == {"Ready", "Pending", "Err"}
SendAnswers == {"Ok", "Err"}

Next ==
  \/ PollBegin
  \/ \E rdy \in Answers, snd \in SendAnswers : TryStartSend(rdy, snd)
  \/ PollNextItem
  \/ PollNextErr
  \/ PollNextNone
  \/ PollNextPending
  \/ \E ans \in Answers : PollClose(ans)
  \/ \E ans \in Answers : PollFlush(ans)

Spec == Init /\ [][Next]_vars

----
\* Executions without errors: the source yields items only, the sink's
\* operations answer Ready or Pending, the task is polled again after every
\* Pending and each call inside poll returns.

LiveInit == InitWith(Items)

InPoll ==
  \/ \E rdy \in {"Ready", "Pending"} : TryStartSend(rdy, "Ok")
  \/ PollNextItem
  \/ PollNextNone
  \/ PollNextPending
  \/ \E ans \in {"Ready", "Pending"} : PollClose(ans)
  \/ \E ans \in {"Ready", "Pending"} : PollFlush(ans)

LiveNext == PollBegin \/ InPoll

LiveSpec == LiveInit /\ [][LiveNext]_vars /\ WF_vars(PollBegin) /\ WF_vars(InPoll)

----
\* TokioDefaultSpawn (compat/tokio.rs).  The tokio executor is outside the
\* crate: each call draws its answer, ok, a clean shutdown or another failure.

ExecAnswers == {"ok", "shutdown", "failure"}

Tasks == 1..MaxTask

FacadeInit == InitWith({})

Call(op, task, ans, out) == [op |-> op, task |-> task, ans |-> ans, out |-> out]

\* Variant of SpawnOutcome that hands a clean shutdown back as an Err.
SpawnOutcomeErrOnShutdown(ans) ==
  CASE ans = "ok" -> "Ok"
    [] ans = "shutdown" -> "Err"
    [] OTHER -> "Panic"

\* spawn(fut).map_err(|err| panic!(..)): Ok passes, every Err panics.
SpawnOutcome(ans) == IF ans = "ok" THEN "Ok" ELSE "Panic"

\* Spawn::spawn_obj
SpawnObj(task, ans) ==
  /\ Len(calls) < MaxCalls
  /\ calls' = Append(calls, Call("spawn_obj", task, ans, SpawnOutcome(ans)))
  /\ spawned' = IF ans = "ok" THEN Append(spawned, task) ELSE spawned
  /\ UNCHANGED forward

\* Variant of StatusOutcome that reports every failure as a shutdown.
StatusOutcomeNoPanic(ans) == IF ans = "ok" THEN "Ok" ELSE "ErrShutdown"

\* status().map_err(|err| if err.is_shutdown() { shutdown() } else { panic!(..) })
StatusOutcome(ans) ==
  CASE ans = "ok" -> "Ok"
    [] ans = "shutdown" -> "ErrShutdown"
    [] OTHER -> "Panic"

\* Spawn::status
Status(ans) ==
  /\ Len(calls) < MaxCalls
  /\ calls' = Append(calls, Call("status", None, ans, StatusOutcome(ans)))
  /\ UNCHANGED spawned
  /\ UNCHANGED forward

FacadeNext ==
  \/ \E task \in Tasks, ans \in ExecAnswers : SpawnObj(task, ans)
  \/ \E ans \in ExecAnswers : Status(ans)

FacadeSpec == FacadeInit /\ [][FacadeNext]_vars

----
\* Properties

NoStreamErr(s) == \A i \in 1..Len(s) : s[i] # StreamErr

BufferedSeq == IF buffered_item = None THEN <<>> ELSE <<buffered_item>>

SinkOps == {"poll_ready", "start_send", "poll_flush", "poll_close"}

Called(name) == \E i \in 1..Len(ops) : ops[i][1] = name

\* C1 (order preservation): when poll has returned Done for a source script
\* without errors and no invocation has returned an error, the items handed
\* to start_send are exactly the script, in order, and exactly one poll_close
\* has completed, as the last call of the invocation that returned Done.
C1_OrderPreserved ==
  (dones >= 1 /\ NoStreamErr(script) /\ ~failed)
    => /\ sent = script
       /\ closes = 1
       /\ dones = 1
       /\ (pc = "idle" /\ result = "Done")
            => ops[Len(ops)] = Op("poll_close", "Ready")

C1_Witness ==
  /\ pc = "idle"
  /\ result = "Done"
  /\ ~failed
  /\ Len(sent) = 3
  /\ sent[1] # sent[2]
  /\ pendings >= 2

\* C2 (backpressure): as long as the sink's poll_ready has never reported
\* Ready (and poll was not invoked again after a poll_ready error), at most
\* one item has been obtained from the source.
C2_Backpressure ==
  (~readySeen /\ ~(readyErr /\ repolled)) => Len(Pulled) <= 1

C2_Witness ==
  /\ pc = "idle"
  /\ ~readySeen
  /\ buffered_item # None
  /\ pos < Len(script)
  /\ pendings >= 2

\* C3 (at most one buffered): between invocations of an engine that has not
\* failed, the items pulled from the source are the items handed to
\* start_send followed by the content of buffered_item, so at most one item
\* is pulled and not yet sent, and it is the buffered one; inside an
\* invocation the buffer is empty whenever the stream is polled.
C3_AtMostOneBuffered ==
  /\ (pc = "idle" /\ ~failed) => Pulled = sent \o BufferedSeq
  /\ pc = "poll_next" => buffered_item = None

C3_Witness ==
  /\ pc = "idle"
  /\ ~failed
  /\ buffered_item # None
  /\ Len(sent) >= 1
  /\ pos < Len(script)

\* C4 (exhaustion close): an invocation returns Done exactly when, in that
\* invocation, the stream reported exhaustion and poll_close reported Ready;
\* the sink field is then None; and for a script of one item the sink has
\* been handed exactly that item and has completed exactly one close.
C4_ExhaustionClose ==
  (pc = "idle" /\ result # "NotPolled")
    => /\ (result = "Done") <=>
            (\E i \in 1..Len(ops) : \E j \in 1..Len(ops) :
               /\ ops[i] = Op("poll_next", "None")
               /\ ops[j] = Op("poll_close", "Ready"))
       /\ result = "Done" => sink = "None"
       /\ (result = "Done" /\ ~failed /\ Len(script) = 1)
            => (sent = script /\ closes = 1)

C4_Witness ==
  /\ pc = "idle"
  /\ result = "Done"
  /\ script = <<1>>
  /\ sent = <<1>>
  /\ closes = 1
  /\ sink = "None"
  /\ pendings = 0

\* C5 (error short-circuit): a stream error is the last call of its
\* invocation, which returns Err at once without any poll_flush or
\* poll_close; when that is the first terminal result, every item yielded
\* before the error has been handed to start_send and poll_close has never
\* been called.
C5_ErrorShortCircuit ==
  \A i \in 1..Len(ops) :
    ops[i] = Op("poll_next", "Err")
      => /\ i = Len(ops)
         /\ pc = "idle"
         /\ result = "Err"
         /\ ~Called("poll_flush")
         /\ ~Called("poll_close")
         /\ ~repolled => (sent = Pulled /\ ~closeCalled /\ buffered_item = None)

C5_Witness ==
  /\ pc = "idle"
  /\ result = "Err"
  /\ script = <<1, 2, StreamErr>>
  /\ sent = <<1, 2>>
  /\ ~closeCalled
  /\ ~repolled
  /\ pendings >= 1

\* C6 (consumer error is immediate): an error answer of poll_ready,
\* start_send, poll_flush or poll_close is the last call of its invocation,
\* which has returned Err; nothing is asked of the stream or the sink after it.
C6_SinkErrorImmediate ==
  \A i \in 1..Len(ops) :
    (ops[i][1] \in SinkOps /\ ops[i][2] = "Err")
      => (i = Len(ops) /\ pc = "idle" /\ result = "Err")

C6_Witness ==
  /\ pc = "idle"
  /\ result = "Err"
  /\ ops[Len(ops)] = Op("start_send", "Err")
  /\ pos < Len(script)
  /\ ~closeCalled

\* C7 (consumer presence): the sink field is None exactly when an invocation
\* has returned Done, which happens at most once; so it is still Some after
\* every Pending or Err result that precedes Done.
C7_SinkPresence ==
  /\ dones <= 1
  /\ (sink = "None") <=> (dones = 1)

C7_Witness ==
  /\ pc = "idle"
  /\ sink = "None"
  /\ dones = 1
  /\ failed
  /\ result = "InvalidPoll"

\* C8 as claimed (failed is terminal): once an invocation has returned an
\* error, no later step pulls an item, hands an item to the sink, or returns
\* Pending or Done.
C8_FailedIsTerminal ==
  [][failed => /\ Pulled' = Pulled
               /\ sent' = sent
               /\ (pc # "idle" /\ pc' = "idle") => result' \notin {"Pending", "Done"}]_vars

\* C8 as amended (failed is not enforced): an invocation that returns Err
\* leaves the sink in place and the buffer empty, and an invocation made
\* after an error is not rejected: no panic occurs before a Done.
C8_FailedNotEnforced ==
  /\ (pc = "idle" /\ result = "Err") => (sink = "Some" /\ buffered_item = None)
  /\ (failed /\ dones = 0) => result \notin {"InvalidPoll", "UnwrapNone"}

C8_Witness ==
  /\ pc = "idle"
  /\ failed
  /\ repolled
  /\ result = "Done"
  /\ Len(sent) >= 1
  /\ script[1] = StreamErr

\* C9 (no double completion): after Done has been returned, an invocation
\* asks the fused stream only, calls no sink operation, ends in the
\* INVALID_POLL panic and never returns a second Done.
C9_NoDoubleCompletion ==
  /\ dones <= 1
  /\ (dones = 1 /\ result # "Done")
       => /\ \A i \in 1..Len(ops) : ops[i] = Op("poll_next", "None")
          /\ pc \in {"idle", "poll_next", "poll_close"}
          /\ pc = "idle" => result = "InvalidPoll"
          /\ closes = 1
          /\ sink = "None"

C9_Witness ==
  /\ pc = "idle"
  /\ dones = 1
  /\ result = "InvalidPoll"
  /\ ops = <<Op("poll_next", "None")>>
  /\ Len(sent) >= 2

\* C10 (completion): when the source yields only items and then exhaustion,
\* no sink operation fails, not-ready answers are finitely many and poll is
\* invoked again after each Pending, poll eventually returns Done.
C10_Completion == <>(dones = 1)

C10_Witness ==
  /\ pc = "idle"
  /\ result = "Done"
  /\ Len(sent) >= 2
  /\ pendings >= 2

CallsOf(op) == {i \in 1..Len(calls) : calls[i].op = op}

\* Tasks of the spawn_obj calls the executor accepted, in call order.
RECURSIVE Accepted(_)
Accepted(cs) ==
  IF cs = <<>> THEN <<>>
  ELSE IF Head(cs).op = "spawn_obj" /\ Head(cs).ans = "ok"
         THEN <<Head(cs).task>> \o Accepted(Tail(cs))
         ELSE Accepted(Tail(cs))

\* C11 as claimed (facade submit): spawn_obj ends in Ok or in a returned
\* Err; a clean shutdown of the executor is returned as an Err, and only a
\* failure that is not a clean shutdown panics.
C11_SubmitReturnsFailure ==
  \A i \in CallsOf("spawn_obj") :
    /\ calls[i].ans = "ok" => calls[i].out = "Ok"
    /\ calls[i].ans = "shutdown" => calls[i].out = "Err"
    /\ calls[i].out = "Panic" => calls[i].ans = "failure"

\* C11 as amended (facade submit): spawn_obj returns Ok exactly when the
\* executor accepts the task; every executor failure, a clean shutdown
\* included, panics, and no Err is ever returned to the caller.
C11_SubmitPanicsOnFailure ==
  /\ \A i \in CallsOf("spawn_obj") :
       /\ calls[i].out \in {"Ok", "Panic"}
       /\ (calls[i].out = "Ok") <=> (calls[i].ans = "ok")
  /\ spawned = Accepted(calls)

C11_Witness ==
  \E i \in CallsOf("spawn_obj") : \E j \in CallsOf("spawn_obj") :
    /\ i < j
    /\ calls[i].ans = "shutdown"
    /\ calls[i].out = "Panic"
    /\ calls[j].ans = "ok"
    /\ spawned = <<calls[j].task>>

\* C12 (facade shutdown mapping): status returns Ok when the executor reports
\* ok, the shutdown error when it reports a clean shutdown, and panics on
\* every other failure.
C12_StatusMapping ==
  \A i \in CallsOf("status") :
    /\ (calls[i].out = "Ok") <=> (calls[i].ans = "ok")
    /\ (calls[i].out = "ErrShutdown") <=> (calls[i].ans = "shutdown")
    /\ (calls[i].out = "Panic") <=> (calls[i].ans = "failure")

C12_Witness ==
  /\ Len(calls) = 3
  /\ \A i \in 1..3 : calls[i].op = "status"
  /\ calls[1].out = "ErrShutdown"
  /\ calls[2].out = "Panic"
  /\ calls[3].out = "Ok"

\* C13 (drain the buffer first): an invocation that finds an item buffered
\* asks the sink's poll_ready for it before any other call; if the answer is
\* Pending it returns Pending at once, with the same item buffered and the
\* stream not polled; the stream is never polled while an item is buffered.
C13_DrainFirst ==
  /\ pc = "poll_next" => buffered_item = None
  /\ entryBuffer # None =>
       /\ ops = <<>> =>
            \/ pc = "try_start_send" /\ item = entryBuffer
            \/ pc = "idle" /\ result = "UnwrapNone"
       /\ ops # <<>> => ops[1][1] = "poll_ready"
       /\ (ops # <<>> /\ ops[1] = Op("poll_ready", "Pending"))
            => /\ Len(ops) = 1
               /\ pc = "idle"
               /\ result = "Pending"
               /\ buffered_item = entryBuffer

C13_Witness ==
  /\ pc = "idle"
  /\ entryBuffer # None
  /\ ops = <<Op("poll_ready", "Pending")>>
  /\ buffered_item = entryBuffer
  /\ pos < Len(script)
  /\ Len(sent) >= 1

\* A freshly pulled item met a poll_ready that was not ready: calls i - 1
\* and i of the invocation.
FreshNotReady(i) ==
  /\ ops[i - 1] = Op("poll_next", "Item")
  /\ ops[i] = Op("poll_ready", "Pending")

\* C14 as claimed (flush on consumer not ready): when a freshly pulled item
\* meets a poll_ready that is not ready, the item is buffered, the invocation
\* returns Pending, and poll_flush has been called in that invocation.
C14_FlushWhenNotReady ==
  \A i \in 2..Len(ops) :
    FreshNotReady(i)
      => /\ pc = "idle"
         /\ result = "Pending"
         /\ buffered_item = script[pos]
         /\ Called("poll_flush")

\* C14 as amended (no flush on consumer not ready): when a freshly pulled
\* item meets a poll_ready that is not ready, the item is buffered and the
\* invocation returns Pending at once; poll_flush is not called in it.
C14_NoFlushWhenNotReady ==
  \A i \in 2..Len(ops) :
    FreshNotReady(i)
      => /\ i = Len(ops)
         /\ pc = "idle"
         /\ result = "Pending"
         /\ buffered_item = script[pos]
         /\ ~Called("poll_flush")

C14_Witness ==
  /\ pc = "idle"
  /\ Len(ops) = 4
  /\ FreshNotReady(4)
  /\ entryBuffer # None
  /\ buffered_item = script[pos]
  /\ result = "Pending"

\* C15 (flush while waiting on the source): a Pending answer of the stream
\* is followed, in the same invocation, by poll_flush and by nothing else;
\* the invocation returns Pending when the flush is Ready or Pending and Err
\* when the flush fails.
C15_FlushWhilePending ==
  \A i \in 1..Len(ops) :
    ops[i] = Op("poll_next", "Pending")
      => \/ i = Len(ops) /\ pc = "poll_flush"
         \/ /\ Len(ops) = i + 1
            /\ ops[i + 1][1] = "poll_flush"
            /\ pc = "idle"
            /\ result = (IF ops[i + 1][2] = "Err" THEN "Err" ELSE "Pending")

C15_Witness ==
  /\ pc = "idle"
  /\ result = "Pending"
  /\ Len(ops) = 4
  /\ ops[3] = Op("poll_next", "Pending")
  /\ ops[4] = Op("poll_flush", "Pending")

\* C16 (readiness protocol): every start_send is the call right after a
\* poll_ready that answered Ready, in the same invocation; a poll_ready that
\* answered Pending or Err is the last call of its invocation.
C16_ReadinessProtocol ==
  \A i \in 1..Len(ops) :
    /\ ops[i][1] = "start_send"
         => (i > 1 /\ ops[i - 1] = Op("poll_ready", "Ready"))
    /\ (ops[i][1] = "poll_ready" /\ ops[i][2] # "Ready")
         => (i = Len(ops) /\ pc = "idle")

C16_Witness ==
  /\ pc = "idle"
  /\ Len(ops) >= 6
  /\ ops[2][1] = "start_send"
  /\ ops[5][1] = "start_send"
  /\ ops[Len(ops)] = Op("poll_ready", "Pending")

\* C17 (no lost wake-up): an invocation returns Pending only if one of its
\* calls (poll_next, poll_ready, poll_flush, poll_close) answered Pending.
C17_NoLostWakeup ==
  (pc = "idle" /\ result = "Pending")
    => \E i \in 1..Len(ops) : ops[i][2] = "Pending"

C17_Witness ==
  /\ pc = "idle"
  /\ result = "Pending"
  /\ Len(ops) = 4
  /\ ops[3] = Op("poll_next", "Pending")
  /\ ops[4] = Op("poll_flush", "Ready")

\* What a step may add to the calls of an invocation once the stream is
\* exhausted: the fused stream's answer or a poll_close, nothing else.
OnlyCloseAdded ==
  \/ ops' = ops
  \/ ops' = <<>>
  \/ /\ Len(ops') = Len(ops) + 1
     /\ SubSeq(ops', 1, Len(ops)) = ops
     /\ ops'[Len(ops')][1] \in {"poll_next", "poll_close"}

\* C18 (closing phase): once the stream has reported exhaustion the buffer
\* is empty, poll is at the stream or at poll_close only, and no later step
\* calls poll_ready, start_send or poll_flush.
C18_ClosingPhase ==
  /\ [](done => /\ buffered_item = None
                /\ item = None
                /\ pc \in {"idle", "poll_next", "poll_close"})
  /\ [][done => (sent' = sent /\ OnlyCloseAdded)]_vars

C18_Witness ==
  /\ pc = "poll_close"
  /\ done
  /\ closeCalled
  /\ dones = 0
  /\ ~failed
  /\ ops = <<Op("poll_next", "None")>>
  /\ Len(sent) >= 1

ItemSeq == IF item = None THEN <<>> ELSE <<item>>

\* C19 (no stranded item at termination): as long as no poll_ready has
\* failed, every pulled item has been handed to start_send, is the item in
\* try_start_send, or is buffered; when an invocation returns Done or a
\* stream error the buffer is empty and every pulled item has been sent.
C19_NoStrandedItem ==
  /\ ~readyErr => Pulled = sent \o ItemSeq \o BufferedSeq
  /\ (/\ pc = "idle"
      /\ \/ result = "Done"
         \/ ops # <<>> /\ ops[Len(ops)] = Op("poll_next", "Err"))
       => /\ buffered_item = None
          /\ item = None
          /\ ~readyErr => sent = Pulled

C19_Witness ==
  /\ pc = "idle"
  /\ result = "Done"
  /\ ~readyErr
  /\ ~failed
  /\ entryBuffer # None
  /\ Len(sent) >= 2

\* C20 (try-send precondition): the debug assertion of try_start_send never
\* fails: the buffer is empty whenever try_start_send is entered, for the
\* drained item and for a freshly pulled one.
C20_TrySendPrecondition ==
  /\ ~assertFailed
  /\ pc = "try_start_send" => (buffered_item = None /\ item # None)

C20_Witness ==
  /\ pc = "try_start_send"
  /\ entryBuffer # None
  /\ Len(ops) = 3
  /\ ops[3] = Op("poll_next", "Item")
  /\ ~assertFailed

====
